---- MODULE Spec2Model ----
(***************************************************************************)
(* chi-httpslog: the request logging pipeline of httpslog.go and the       *)
(* process-wide option set of options.go.                                  *)
(*                                                                         *)
(* One request travels the chain RequestID -> Handler -> Recoverer ->      *)
(* downstream handler (RequestLogger), or Handler -> downstream handler    *)
(* when Handler is mounted on its own.  The downstream handler is the      *)
(* environment: it sets a status, writes body bytes, sets response         *)
(* headers, adds fields to the entry, logs through the entry, returns or   *)
(* panics.  A record is "emitted" when it is handed to the slog handle.    *)
(*                                                                         *)
(* Text whose letter case matters (paths, header names, level names) is a  *)
(* sequence of one-character strings; other text is a TLA+ string.         *)
(***************************************************************************)
EXTENDS Integers, Sequences, FiniteSets, TLC

VARIABLES
    DefaultOptions,  \* options.go: var DefaultOptions
    sinkLevel,       \* minimum level of the slog default handler (slog.SetDefault)
    nConfigure,      \* number of Configure calls made so far
    skipPaths,       \* Handler's closure: the skip set built from optSkipPaths[0]
    useRecoverer,    \* TRUE: RequestLogger chain; FALSE: Handler mounted alone
    pc,              \* position of the request flow
    r,               \* the request being served
    hasEntry,        \* an entry is carried by the request context
    entry,           \* RequestLoggerEntry: [Logger, msg]
    wrapped,         \* the handler was given the WrapResponseWriter
    ww,              \* WrapResponseWriter: [code, wroteHeader, bytes]
    buf,             \* the limit buffer teed from ww
    w,               \* the original ResponseWriter: [code, wroteHeader, body, header]
    steps,           \* logical clock: operations of the downstream handler so far
    panicking,       \* the panic in flight: [on, v]
    panicked,        \* history: the panic the downstream handler raised, if any
    calls,           \* history: invocations made on the entry, in order
    records,         \* records handed to slog handles, in order
    stderr,          \* PrintPrettyStack dumps
    probe,           \* input/output cell of the pure-function specifications
    added,           \* history: associations handed to LogEntrySetField(s) on an entry
    cfg,             \* a Configure call in progress: [at, opts]
    conc             \* two request flows sharing one Handler: [base, flow, records]

vars == <<DefaultOptions, sinkLevel, nConfigure, skipPaths, useRecoverer, pc, r,
          hasEntry, entry, wrapped, ww, buf, w, steps, panicking, panicked,
          calls, records, stderr, probe, added, cfg, conc>>

flowVars == <<skipPaths, useRecoverer, pc, r, hasEntry, entry, wrapped, ww, buf,
              w, steps, panicking, panicked, calls, records, stderr>>

(***************************************************************************)
(* Bounds of the model.                                                    *)
(***************************************************************************)
MaxHandlerSteps == 3   \* operations the downstream handler makes before it ends
MaxConfigure == 1      \* Configure calls before the request arrives
MaxStatus == 610       \* statuses -MaxStatus..MaxStatus are classified
SmallChunk == 3        \* length of the short body write

(***************************************************************************)
(* Text.                                                                   *)
(***************************************************************************)
UpperLetters == <<"A","B","C","D","E","F","G","H","I","J","K","L","M",
                  "N","O","P","Q","R","S","T","U","V","W","X","Y","Z">>
LowerLetters == <<"a","b","c","d","e","f","g","h","i","j","k","l","m",
                  "n","o","p","q","r","s","t","u","v","w","x","y","z">>

\* strings.ToLower on one character
ToLowerChar(c) ==
    IF \E i \in DOMAIN UpperLetters : UpperLetters[i] = c
    THEN LowerLetters[CHOOSE i \in DOMAIN UpperLetters : UpperLetters[i] = c]
    ELSE c

\* strings.ToLower
ToLower(s) == [i \in DOMAIN s |-> ToLowerChar(s[i])]

\* the characters of s as one string
RECURSIVE Text(_)
Text(s) == IF s = <<>> THEN "" ELSE s[1] \o Text(Tail(s))

\* strings.Join
RECURSIVE Join(_, _)
Join(v, sep) ==
    IF v = <<>> THEN ""
    ELSE IF Len(v) = 1 THEN v[1]
    ELSE v[1] \o sep \o Join(Tail(v), sep)

S_info == <<"i","n","f","o">>
S_debug == <<"d","e","b","u","g">>
S_warn == <<"w","a","r","n">>
S_error == <<"e","r","r","o","r">>
S_authorization == <<"a","u","t","h","o","r","i","z","a","t","i","o","n">>
S_cookie == <<"c","o","o","k","i","e">>
S_set_cookie == <<"s","e","t","-","c","o","o","k","i","e">>

H_SetCookie == <<"S","e","t","-","C","o","o","k","i","e">>
H_Cookie == <<"C","o","o","k","i","e">>
H_Authorization == <<"A","u","t","h","o","r","i","z","a","t","i","o","n">>
H_XApiKey == <<"X","-","A","p","i","-","K","e","y">>
H_xapikey == <<"x","-","a","p","i","-","k","e","y">>
H_XAPIKEY == <<"X","-","A","P","I","-","K","E","Y">>
H_Accept == <<"A","c","c","e","p","t">>
H_Connection == <<"C","o","n","n","e","c","t","i","o","n">>
H_ContentType == <<"C","o","n","t","e","n","t","-","T","y","p","e">>

P_root == <<"/">>
P_ping == <<"/","p","i","n","g">>
P_PING == <<"/","P","I","N","G">>
P_pingx == <<"/","p","i","n","g","/","x">>

Mask == "***"
RFC3339Nano == "2006-01-02T15:04:05.999999999Z07:00"

(***************************************************************************)
(* options.go                                                              *)
(***************************************************************************)
InitialOptions ==
    [LogLevel |-> S_info, LevelFieldName |-> "level", Concise |-> FALSE,
     Tags |-> <<>>, SkipHeaders |-> <<>>, TimeFieldFormat |-> RFC3339Nano,
     TimeFieldName |-> "timestamp"]

\* variant: the redaction list stored as given, not lower-cased
ConfiguredOptionsRaw(opts) ==
    [opts EXCEPT
        !.LogLevel = IF @ = <<>> THEN S_info ELSE @,
        !.LevelFieldName = IF @ = "" THEN "level" ELSE @,
        !.TimeFieldFormat = IF @ = "" THEN RFC3339Nano ELSE @,
        !.TimeFieldName = IF @ = "" THEN "timestamp" ELSE @]

\* variant: an empty Tags or SkipHeaders keeps the value configured before
ConfiguredOptionsMerge(opts) ==
    [opts EXCEPT
        !.LogLevel = IF @ = <<>> THEN S_info ELSE @,
        !.LevelFieldName = IF @ = "" THEN "level" ELSE @,
        !.TimeFieldFormat = IF @ = "" THEN RFC3339Nano ELSE @,
        !.TimeFieldName = IF @ = "" THEN "timestamp" ELSE @,
        !.Tags = IF @ = <<>> THEN DefaultOptions.Tags ELSE @,
        !.SkipHeaders = IF @ = <<>> THEN DefaultOptions.SkipHeaders
                        ELSE [i \in DOMAIN @ |-> ToLower(@[i])]]

\* the option set Configure stores in DefaultOptions
ConfiguredOptions(opts) ==
    [opts EXCEPT
        !.LogLevel = IF @ = <<>> THEN S_info ELSE @,
        !.LevelFieldName = IF @ = "" THEN "level" ELSE @,
        !.TimeFieldFormat = IF @ = "" THEN RFC3339Nano ELSE @,
        !.TimeFieldName = IF @ = "" THEN "timestamp" ELSE @,
        !.SkipHeaders = [i \in DOMAIN @ |-> ToLower(@[i])]]

\* the minimum level Configure gives the default handler
ConfiguredLevel(opts) ==
    LET name == ToLower(ConfiguredOptions(opts).LogLevel) IN
    CASE name = S_debug -> "DEBUG"
      [] name = S_info -> "INFO"
      [] name = S_warn -> "WARN"
      [] name = S_error -> "ERROR"
      [] OTHER -> "INFO"

\* the option sets callers hand to Configure
OptionChoices ==
    { [LogLevel |-> <<>>, LevelFieldName |-> "", Concise |-> TRUE,
       Tags |-> <<>>, SkipHeaders |-> <<>>, TimeFieldFormat |-> "",
       TimeFieldName |-> ""],
      [LogLevel |-> <<"W","a","r","n">>, LevelFieldName |-> "severity",
       Concise |-> FALSE, Tags |-> <<>>, SkipHeaders |-> <<H_XApiKey>>,
       TimeFieldFormat |-> "", TimeFieldName |-> "ts"],
      [LogLevel |-> <<"t","r","a","c","e">>, LevelFieldName |-> "",
       Concise |-> TRUE, Tags |-> <<>>, SkipHeaders |-> <<H_XAPIKEY, H_Accept>>,
       TimeFieldFormat |-> "", TimeFieldName |-> ""] }

(***************************************************************************)
(* httpslog.go: status classification                                      *)
(***************************************************************************)
\* variant: the first case written status < 0
statusLevelZeroInfo(status) ==
    CASE status < 0 -> "WARN"
      [] status >= 0 /\ status < 400 -> "INFO"
      [] status >= 400 /\ status < 500 -> "WARN"
      [] status >= 500 -> "ERROR"
      [] OTHER -> "INFO"

statusLevel(status) ==
    CASE status <= 0 -> "WARN"
      [] status > 0 /\ status < 400 -> "INFO"
      [] status >= 400 /\ status < 500 -> "WARN"
      [] status >= 500 -> "ERROR"
      [] OTHER -> "INFO"

statusLabel(status) ==
    CASE status >= 100 /\ status < 300 -> "OK"
      [] status >= 300 /\ status < 400 -> "Redirect"
      [] status >= 400 /\ status < 500 -> "Client Error"
      [] status >= 500 -> "Server Error"
      [] OTHER -> "Unknown"

(***************************************************************************)
(* httpslog.go: header redaction.  A header collection is a function from  *)
(* names to sequences of values; `order` is the order in which the range   *)
(* loop visits the names (Go leaves it unspecified).                       *)
(***************************************************************************)
\* one iteration of the loop body over name k0, updating headerField
headerLogFieldStep(headerField, k0, v) ==
    LET k == ToLower(k0)
        joined == IF Len(v) = 1 THEN v[1] ELSE "[" \o Join(v, "], [") \o "]"
        sensitive == k = S_authorization \/ k = S_cookie \/ k = S_set_cookie
        listed == \E i \in DOMAIN DefaultOptions.SkipHeaders :
                      k = DefaultOptions.SkipHeaders[i]
        value == IF sensitive \/ listed THEN Mask ELSE joined
    IN  IF Len(v) = 0 THEN headerField
        ELSE (k :> value) @@ headerField

RECURSIVE headerLogFieldFrom(_, _, _)
headerLogFieldFrom(header, order, headerField) ==
    IF order = <<>> THEN headerField
    ELSE headerLogFieldFrom(header, Tail(order),
             headerLogFieldStep(headerField, Head(order), header[Head(order)]))

headerLogField(header, order) == headerLogFieldFrom(header, order, <<>>)

\* the orders in which a range loop may visit the names of a header collection
Orders(header) ==
    { o \in [1..Cardinality(DOMAIN header) -> DOMAIN header] :
        \A i, j \in DOMAIN o : i # j => o[i] # o[j] }

(***************************************************************************)
(* slog handles.  A handle is the sequence of attributes attached to it    *)
(* with With; a record is what one Info/Warn/Error call hands to it.       *)
(***************************************************************************)
With(logger, key, value) == Append(logger, <<key, value>>)

\* slog.Logger.With given one argument that is not a string: slog attaches it
\* whole under the key "!BADKEY"
BadKey == "!BADKEY"
WithValue(logger, value) == Append(logger, <<BadKey, value>>)

\* the handle NewLogger returns: slog.With("service", name)
BaseLogger == With(<<>>, "service", "httpslog-example")

\* slog.Default(): the process-wide handle, no attributes
DefaultLogger == <<>>

Record(kind, level, logger, msg) ==
    [kind |-> kind, level |-> level, msg |-> msg, attrs |-> logger]

HasAttr(logger, key) == \E i \in DOMAIN logger : logger[i][1] = key

\* the value of the last attribute of that key
AttrOf(logger, key) ==
    logger[CHOOSE i \in DOMAIN logger :
              /\ logger[i][1] = key
              /\ \A j \in DOMAIN logger : logger[j][1] = key => j <= i][2]

(***************************************************************************)
(* Requests.                                                               *)
(***************************************************************************)
Requests ==
    { [Method |-> "GET", Path |-> P_root, RequestURI |-> "/", Host |-> "example.com",
       TLS |-> FALSE, RemoteAddr |-> "10.0.0.1:4000", Proto |-> "HTTP/1.1",
       Header |-> (H_Accept :> <<"*/*">>) @@ (H_Cookie :> <<"sid=1">>)],
      [Method |-> "GET", Path |-> P_ping, RequestURI |-> "/ping", Host |-> "example.com",
       TLS |-> FALSE, RemoteAddr |-> "10.0.0.1:4000", Proto |-> "HTTP/1.1",
       Header |-> (H_Accept :> <<"*/*">>)],
      [Method |-> "POST", Path |-> P_PING, RequestURI |-> "/PING?x=1", Host |-> "example.com",
       TLS |-> TRUE, RemoteAddr |-> "10.0.0.1:4000", Proto |-> "HTTP/2.0",
       Header |-> <<>>],
      [Method |-> "GET", Path |-> P_pingx, RequestURI |-> "/ping/x", Host |-> "example.com",
       TLS |-> FALSE, RemoteAddr |-> "10.0.0.1:4000", Proto |-> "HTTP/1.1",
       Header |-> (H_Connection :> <<"Upgrade">>)] }

NoRequest ==
    [Method |-> "", Path |-> <<>>, RequestURI |-> "", Host |-> "", TLS |-> FALSE,
     RemoteAddr |-> "", Proto |-> "", Header |-> <<>>]

\* the skip lists RequestLogger / Handler are constructed with
SkipLists == { <<>>, <<P_ping>> }

\* Handler: the set built from optSkipPaths[0]
SkipSet(list) == { list[i] : i \in DOMAIN list }

\* variant: the path compared after case folding
SkipFold(paths, path) == Cardinality(paths) > 0 /\ ToLower(path) \in paths

\* Handler: the test that bypasses logging
Skip(paths, path) == Cardinality(paths) > 0 /\ path \in paths

\* http.Header.Get: the first value stored under the canonical key
Get(header, key) ==
    IF key \in DOMAIN header /\ Len(header[key]) > 0 THEN header[key][1] ELSE ""

\* middleware.GetReqID: the id RequestID stored in the context, "" without it
GetReqID == IF useRecoverer THEN "example.com/req-000001" ELSE ""

requestLogFields(req, concise, order) ==
    LET scheme == IF req.TLS THEN "https" ELSE "http"
        requestURL == scheme \o "://" \o req.Host \o req.RequestURI
        fields0 == [requestURL |-> requestURL, requestMethod |-> req.Method,
                    requestPath |-> Text(req.Path), remoteIP |-> req.RemoteAddr,
                    proto |-> req.Proto]
        fields1 == IF GetReqID # "" THEN ("requestID" :> GetReqID) @@ fields0
                   ELSE fields0
        fields2 == ("scheme" :> scheme) @@ fields1
    IN  IF concise THEN fields1
        ELSE IF Cardinality(DOMAIN req.Header) > 0
             THEN ("header" :> headerLogField(req.Header, order)) @@ fields2
             ELSE fields2

(***************************************************************************)
(* requestLogger.NewLogEntry: the new entry and the records it emits.      *)
(***************************************************************************)
NewLogEntryLogger(req) ==
    With(BaseLogger, "httpRequest", requestLogFields(req, TRUE, <<>>))

\* variant: the start record emitted without the test of Concise
NewLogEntryRecordsAlways(req, order) ==
    << Record("start", "INFO",
              With(NewLogEntryLogger(req), "httpRequest",
                   requestLogFields(req, DefaultOptions.Concise, order)),
              "Request: " \o req.Method \o " " \o Text(req.Path)) >>

NewLogEntryRecords(req, order) ==
    IF ~DefaultOptions.Concise
    THEN << Record("start", "INFO",
                   With(NewLogEntryLogger(req), "httpRequest",
                        requestLogFields(req, DefaultOptions.Concise, order)),
                   "Request: " \o req.Method \o " " \o Text(req.Path)) >>
    ELSE << >>

(***************************************************************************)
(* RequestLoggerEntry.Write                                                *)
(***************************************************************************)
WriteMsg(l, status) ==
    LET msg == "Response: " \o ToString(status) \o " " \o statusLabel(status)
    IN  IF l.msg # "" THEN msg \o " - " \o l.msg ELSE msg

\* variant: the body snippet added outside the test of Concise
WriteResponseLogBodyAlways(status, bytes, header, elapsed, extra, order) ==
    LET log0 == [status |-> status, bytes |-> bytes, elapsed |-> elapsed]
        log1 == IF status >= 400 THEN ("body" :> extra) @@ log0 ELSE log0
        log2 == IF Cardinality(DOMAIN header) > 0
                THEN ("header" :> headerLogField(header, order)) @@ log1
                ELSE log1
    IN  IF ~DefaultOptions.Concise THEN log2 ELSE log1

\* variant: the body snippet added for statuses above 400 only
WriteResponseLogBodyOver(status, bytes, header, elapsed, extra, order) ==
    LET log0 == [status |-> status, bytes |-> bytes, elapsed |-> elapsed]
        log1 == IF status > 400 THEN ("body" :> extra) @@ log0 ELSE log0
        log2 == IF Cardinality(DOMAIN header) > 0
                THEN ("header" :> headerLogField(header, order)) @@ log1
                ELSE log1
    IN  IF ~DefaultOptions.Concise THEN log2 ELSE log0

\* responseLog; string(body) keeps the bytes of extra
WriteResponseLog(status, bytes, header, elapsed, extra, order) ==
    LET log0 == [status |-> status, bytes |-> bytes, elapsed |-> elapsed]
        log1 == IF status >= 400 THEN ("body" :> extra) @@ log0 ELSE log0
        log2 == IF Cardinality(DOMAIN header) > 0
                THEN ("header" :> headerLogField(header, order)) @@ log1
                ELSE log1
    IN  IF ~DefaultOptions.Concise THEN log2 ELSE log0

\* variant: the switch read with C fall-through, each case running into the next
WriteLevelsFallthrough(status) ==
    CASE statusLevel(status) = "ERROR" -> <<"ERROR", "WARN", "INFO">>
      [] statusLevel(status) = "WARN" -> <<"WARN", "INFO">>
      [] statusLevel(status) = "INFO" -> <<"INFO">>
      [] OTHER -> <<"INFO">>

\* variant: the info case emits like the default case
WriteLevelsInfoEmits(status) ==
    CASE statusLevel(status) = "ERROR" -> <<"ERROR">>
      [] statusLevel(status) = "WARN" -> <<"WARN">>
      [] OTHER -> <<"INFO">>

\* the switch on statusLevel: the levels at which a record is emitted
WriteLevels(status) ==
    CASE statusLevel(status) = "ERROR" -> <<"ERROR">>
      [] statusLevel(status) = "WARN" -> <<"WARN">>
      [] statusLevel(status) = "INFO" -> << >>
      [] OTHER -> <<"INFO">>

\* the records Write emits
Write(l, status, bytes, header, elapsed, extra, order) ==
    LET levels == WriteLevels(status)
        logger == With(l.Logger, "httpResponse",
                       WriteResponseLog(status, bytes, header, elapsed, extra, order))
    IN  [i \in DOMAIN levels |-> Record("end", levels[i], logger, WriteMsg(l, status))]

(***************************************************************************)
(* RequestLoggerEntry.Panic                                                *)
(***************************************************************************)
\* fmt.Sprintf("%+v", v): the text of a string or of an error value
Sprintf(v) == v.s

\* debug.Stack() as the recovery boundary captures it
StackText == "goroutine 7 [running]: ..."

\* variant: the short message is not retained
PanicNoMsg(l, v, stack) ==
    [Logger |-> With(With(l.Logger, "stacktrace", stack), "panic", Sprintf(v)),
     msg |-> l.msg]

Panic(l, v, stack) ==
    [Logger |-> With(With(l.Logger, "stacktrace", stack), "panic", Sprintf(v)),
     msg |-> Sprintf(v)]

ErrAbortHandler == [type |-> "error", s |-> "net/http: abort Handler"]

\* the values the downstream handler panics with
PanicValues ==
    { [type |-> "string", s |-> "oh no"], [type |-> "string", s |-> ""],
      ErrAbortHandler }

NoPanic == [on |-> FALSE, v |-> [type |-> "", s |-> ""]]

(***************************************************************************)
(* The response writers.  ww forwards to w and tees body bytes into buf.   *)
(***************************************************************************)
LimitBufferCap == 512

Min(a, b) == IF a < b THEN a ELSE b

\* the limit buffer's Write: mirrors p up to the remaining capacity
LimitBufferWrite(b, p) == b \o SubSeq(p, 1, Min(Len(p), LimitBufferCap - Len(b)))

NewWriter == [code |-> 0, wroteHeader |-> FALSE, body |-> <<>>, header |-> <<>>]
NewWrapResponseWriter == [code |-> 0, wroteHeader |-> FALSE, bytes |-> 0]

\* http.ResponseWriter.WriteHeader: the first status wins
RawWriteHeader(rw, code) ==
    IF rw.wroteHeader THEN rw ELSE [rw EXCEPT !.code = code, !.wroteHeader = TRUE]

\* http.ResponseWriter.Write: an implicit 200, then the bytes
RawWrite(rw, p) == [RawWriteHeader(rw, 200) EXCEPT !.body = @ \o p]

\* WrapResponseWriter.WriteHeader: records the first status
WrapWriteHeader(b, code) ==
    IF b.wroteHeader THEN b ELSE [b EXCEPT !.code = code, !.wroteHeader = TRUE]

\* variant: only the bytes the side buffer still takes are counted
WrapWriteMirrored(b, p) ==
    [WrapWriteHeader(b, 200) EXCEPT !.bytes = @ + Min(Len(p), LimitBufferCap - Len(buf))]

\* WrapResponseWriter.Write: an implicit 200, then counts the bytes
WrapWrite(b, p) == [WrapWriteHeader(b, 200) EXCEPT !.bytes = @ + Len(p)]

\* the body writes and statuses the downstream handler chooses among
Chunk(n, c) == [i \in 1..n |-> c]
Chunks == { Chunk(SmallChunk, "h"), Chunk(LimitBufferCap + SmallChunk, "e") }
StatusChoices == {200, 302, 400, 500}
HeaderChoices == { <<H_SetCookie, <<"abc=123">> >>, <<H_XApiKey, <<"k1", "k2">> >> }

(***************************************************************************)
(* Initial state: the program after construction, before any request.      *)
(***************************************************************************)
InitFlow(list, chain) ==
    /\ skipPaths = SkipSet(list)
    /\ useRecoverer = chain
    /\ pc = "idle"
    /\ r = NoRequest
    /\ hasEntry = FALSE
    /\ entry = [Logger |-> <<>>, msg |-> ""]
    /\ wrapped = FALSE
    /\ ww = NewWrapResponseWriter
    /\ buf = <<>>
    /\ w = NewWriter
    /\ steps = 0
    /\ panicking = NoPanic
    /\ panicked = NoPanic
    /\ calls = <<>>
    /\ records = <<>>
    /\ stderr = <<>>

\* no Configure call in progress
NoConfigure == [at |-> "idle", opts |-> InitialOptions]

\* the cells of the other specifications, at rest
InitOther ==
    /\ added = {}
    /\ cfg = NoConfigure
    /\ conc = <<>>

Init ==
    /\ DefaultOptions = InitialOptions
    /\ sinkLevel = "INFO"
    /\ nConfigure = 0
    /\ \E list \in SkipLists, chain \in BOOLEAN : InitFlow(list, chain)
    /\ probe = <<>>
    /\ InitOther

(***************************************************************************)
(* options.go: Configure                                                   *)
(***************************************************************************)
Configure(opts) ==
    /\ pc = "idle"
    /\ nConfigure < MaxConfigure
    /\ DefaultOptions' = ConfiguredOptions(opts)
    /\ sinkLevel' = ConfiguredLevel(opts)
    /\ nConfigure' = nConfigure + 1
    /\ UNCHANGED <<flowVars, probe, added, cfg, conc>>

(***************************************************************************)
(* Handler: the middleware function up to its call of next.ServeHTTP.      *)
(***************************************************************************)
HandlerEnter(req, order) ==
    /\ pc = "idle"
    /\ r' = req
    /\ pc' = "next"
    /\ IF Skip(skipPaths, req.Path)
       THEN UNCHANGED <<hasEntry, entry, wrapped, records>>
       ELSE /\ entry' = [Logger |-> NewLogEntryLogger(req), msg |-> ""]
            /\ records' = records \o NewLogEntryRecords(req, order)
            /\ wrapped' = TRUE
            /\ hasEntry' = TRUE
    /\ UNCHANGED <<DefaultOptions, sinkLevel, nConfigure, skipPaths, useRecoverer,
                   ww, buf, w, steps, panicking, calls, stderr, panicked, probe, added, cfg, conc>>

(***************************************************************************)
(* The downstream handler.                                                 *)
(***************************************************************************)
\* where control goes when the downstream handler ends
AfterRecoverer == IF wrapped THEN "finalizer" ELSE "done"
AfterNext == IF useRecoverer THEN "recoverer" ELSE AfterRecoverer

NextRunning == pc = "next" /\ steps < MaxHandlerSteps

\* w.WriteHeader(code)
NextWriteHeader(code) ==
    /\ NextRunning
    /\ steps' = steps + 1
    /\ ww' = IF wrapped THEN WrapWriteHeader(ww, code) ELSE ww
    /\ w' = IF wrapped /\ ww.wroteHeader THEN w ELSE RawWriteHeader(w, code)
    /\ UNCHANGED <<DefaultOptions, sinkLevel, nConfigure, skipPaths, useRecoverer,
                   pc, r, hasEntry, entry, wrapped, buf, panicking, calls, records,
                   stderr, panicked, probe, added, cfg, conc>>

\* w.Write(p)
NextWrite(p) ==
    /\ NextRunning
    /\ steps' = steps + 1
    /\ ww' = IF wrapped THEN WrapWrite(ww, p) ELSE ww
    /\ buf' = IF wrapped THEN LimitBufferWrite(buf, p) ELSE buf
    /\ w' = RawWrite(w, p)
    /\ UNCHANGED <<DefaultOptions, sinkLevel, nConfigure, skipPaths, useRecoverer,
                   pc, r, hasEntry, entry, wrapped, panicking, calls, records,
                   stderr, panicked, probe, added, cfg, conc>>

\* w.Header()[name] = values
NextSetHeader(name, values) ==
    /\ NextRunning
    /\ steps' = steps + 1
    /\ w' = [w EXCEPT !.header = (name :> values) @@ @]
    /\ UNCHANGED <<DefaultOptions, sinkLevel, nConfigure, skipPaths, useRecoverer,
                   pc, r, hasEntry, entry, wrapped, ww, buf, panicking, calls,
                   records, stderr, panicked, probe, added, cfg, conc>>

\* variant: the entry used without the test that the context carries one
LogEntrySetFieldUnchecked(key, value) ==
    /\ NextRunning
    /\ steps' = steps + 1
    /\ entry' = [entry EXCEPT !.Logger = With(@, key, value)]
    /\ added' = IF hasEntry THEN added \cup {<<key, value>>} ELSE added
    /\ UNCHANGED <<DefaultOptions, sinkLevel, nConfigure, skipPaths, useRecoverer,
                   pc, r, hasEntry, wrapped, ww, buf, w, panicking, calls, records,
                   stderr, panicked, probe, cfg, conc>>

\* LogEntrySetField(r.Context(), key, value)
LogEntrySetField(key, value) ==
    /\ NextRunning
    /\ steps' = steps + 1
    /\ entry' = IF hasEntry THEN [entry EXCEPT !.Logger = With(@, key, value)]
                ELSE entry
    /\ added' = IF hasEntry THEN added \cup {<<key, value>>} ELSE added
    /\ UNCHANGED <<DefaultOptions, sinkLevel, nConfigure, skipPaths, useRecoverer,
                   pc, r, hasEntry, wrapped, ww, buf, w, panicking, calls, records,
                   stderr, panicked, probe, cfg, conc>>

\* the mapping the downstream handler hands to LogEntrySetFields
FieldsChoice == ("tenant" :> "t-1") @@ ("plan" :> "pro")

\* LogEntrySetFields(r.Context(), fields)
LogEntrySetFields(fields) ==
    /\ NextRunning
    /\ steps' = steps + 1
    /\ entry' = IF hasEntry THEN [entry EXCEPT !.Logger = WithValue(@, fields)]
                ELSE entry
    /\ added' = IF hasEntry
                THEN added \cup { <<k, fields[k]>> : k \in DOMAIN fields }
                ELSE added
    /\ UNCHANGED <<DefaultOptions, sinkLevel, nConfigure, skipPaths, useRecoverer,
                   pc, r, hasEntry, wrapped, ww, buf, w, panicking, calls, records,
                   stderr, panicked, probe, cfg, conc>>

\* LogEntry(r.Context())
LogEntry == IF hasEntry THEN entry.Logger ELSE DefaultLogger

\* LogEntry(r.Context()).Info(msg)
NextLog(msg) ==
    /\ NextRunning
    /\ steps' = steps + 1
    /\ records' = Append(records, Record("handler", "INFO", LogEntry, msg))
    /\ UNCHANGED <<DefaultOptions, sinkLevel, nConfigure, skipPaths, useRecoverer,
                   pc, r, hasEntry, entry, wrapped, ww, buf, w, panicking, calls,
                   stderr, panicked, probe, added, cfg, conc>>

\* the downstream handler returns
NextReturn ==
    /\ pc = "next"
    /\ pc' = AfterNext
    /\ UNCHANGED <<DefaultOptions, sinkLevel, nConfigure, skipPaths, useRecoverer,
                   r, hasEntry, entry, wrapped, ww, buf, w, steps, panicking, calls,
                   records, stderr, panicked, probe, added, cfg, conc>>

\* the downstream handler panics with v
NextPanic(v) ==
    /\ pc = "next"
    /\ pc' = AfterNext
    /\ panicking' = [on |-> TRUE, v |-> v]
    /\ panicked' = [on |-> TRUE, v |-> v]
    /\ UNCHANGED <<DefaultOptions, sinkLevel, nConfigure, skipPaths, useRecoverer,
                   r, hasEntry, entry, wrapped, ww, buf, w, steps, calls, records,
                   stderr, probe, added, cfg, conc>>

(***************************************************************************)
(* middleware.Recoverer: its deferred function.  A panic other than        *)
(* http.ErrAbortHandler is recovered: the entry's Panic hook runs (or the  *)
(* stack is printed when the request carries no entry) and a 500 is        *)
(* written unless the connection is being upgraded.  ErrAbortHandler is    *)
(* raised again.                                                           *)
(***************************************************************************)
Recovers == panicking.on /\ panicking.v # ErrAbortHandler

Recoverer ==
    /\ pc = "recoverer"
    /\ pc' = AfterRecoverer
    /\ panicking' = IF Recovers THEN NoPanic ELSE panicking
    /\ entry' = IF Recovers /\ hasEntry THEN Panic(entry, panicking.v, StackText)
                ELSE entry
    /\ calls' = IF Recovers /\ hasEntry THEN Append(calls, "Panic") ELSE calls
    /\ stderr' = IF Recovers THEN Append(stderr, Sprintf(panicking.v)) ELSE stderr
    /\ ww' = IF Recovers /\ wrapped /\ Get(r.Header, H_Connection) # "Upgrade"
             THEN WrapWriteHeader(ww, 500) ELSE ww
    /\ w' = IF Recovers /\ Get(r.Header, H_Connection) # "Upgrade"
               /\ ~(wrapped /\ ww.wroteHeader)
            THEN RawWriteHeader(w, 500) ELSE w
    /\ UNCHANGED <<DefaultOptions, sinkLevel, nConfigure, skipPaths, useRecoverer,
                   r, hasEntry, wrapped, buf, steps, records, panicked, probe, added, cfg, conc>>

(***************************************************************************)
(* Handler: its deferred function, run when next.ServeHTTP returns or      *)
(* unwinds.                                                                *)
(***************************************************************************)
\* variant: finalization placed after next.ServeHTTP instead of deferred
HandlerDeferredOnReturn(order) ==
    /\ pc = "finalizer"
    /\ pc' = "done"
    /\ LET respBody == IF ww.code >= 400 THEN buf ELSE <<>>
       IN  /\ buf' = IF ww.code >= 400 /\ ~panicking.on THEN <<>> ELSE buf
           /\ records' = IF panicking.on THEN records
                         ELSE records \o Write(entry, ww.code, ww.bytes, w.header,
                                               steps, respBody, order)
    /\ calls' = IF panicking.on THEN calls ELSE Append(calls, "Write")
    /\ UNCHANGED <<DefaultOptions, sinkLevel, nConfigure, skipPaths, useRecoverer,
                   r, hasEntry, entry, wrapped, ww, w, steps, panicking, stderr,
                   panicked, probe, added, cfg, conc>>

\* variant: the normal finalization left out once the panic hook has run
HandlerDeferredUnlessPanic(order) ==
    /\ pc = "finalizer"
    /\ pc' = "done"
    /\ LET respBody == IF ww.code >= 400 THEN buf ELSE <<>>
       IN  /\ buf' = IF ww.code >= 400 /\ entry.msg = "" THEN <<>> ELSE buf
           /\ records' = IF entry.msg # "" THEN records
                         ELSE records \o Write(entry, ww.code, ww.bytes, w.header,
                                               steps, respBody, order)
    /\ calls' = IF entry.msg # "" THEN calls ELSE Append(calls, "Write")
    /\ UNCHANGED <<DefaultOptions, sinkLevel, nConfigure, skipPaths, useRecoverer,
                   r, hasEntry, entry, wrapped, ww, w, steps, panicking, stderr,
                   panicked, probe, added, cfg, conc>>

HandlerDeferred(order) ==
    /\ pc = "finalizer"
    /\ pc' = "done"
    /\ LET respBody == IF ww.code >= 400 THEN buf ELSE <<>>
       IN  /\ buf' = IF ww.code >= 400 THEN <<>> ELSE buf
           /\ records' = records \o Write(entry, ww.code, ww.bytes, w.header, steps,
                                          respBody, order)
    /\ calls' = Append(calls, "Write")
    /\ UNCHANGED <<DefaultOptions, sinkLevel, nConfigure, skipPaths, useRecoverer,
                   r, hasEntry, entry, wrapped, ww, w, steps, panicking, stderr,
                   panicked, probe, added, cfg, conc>>

Next ==
    \/ \E opts \in OptionChoices : Configure(opts)
    \/ \E req \in Requests : \E order \in Orders(req.Header) : HandlerEnter(req, order)
    \/ \E code \in StatusChoices : NextWriteHeader(code)
    \/ \E p \in Chunks : NextWrite(p)
    \/ \E h \in HeaderChoices : NextSetHeader(h[1], h[2])
    \/ LogEntrySetField("user", "u-17")
    \/ LogEntrySetFields(FieldsChoice)
    \/ NextLog("info here")
    \/ NextReturn
    \/ \E v \in PanicValues : NextPanic(v)
    \/ Recoverer
    \/ \E order \in Orders(w.header) : HandlerDeferred(order)

Spec == Init /\ [][Next]_vars

(***************************************************************************)
(* Classification applied to every status of a range.                      *)
(***************************************************************************)
InitClassify ==
    /\ DefaultOptions = InitialOptions
    /\ sinkLevel = "INFO"
    /\ nConfigure = 0
    /\ InitFlow(<<>>, TRUE)
    /\ probe \in { [s |-> s, done |-> FALSE, level |-> "", label |-> ""] :
                     s \in (-MaxStatus)..MaxStatus }
    /\ InitOther

Classify ==
    /\ ~probe.done
    /\ probe' = [probe EXCEPT !.done = TRUE, !.level = statusLevel(probe.s),
                              !.label = statusLabel(probe.s)]
    /\ UNCHANGED <<DefaultOptions, sinkLevel, nConfigure, flowVars, added, cfg, conc>>

NextClassify == Classify

SpecClassify == InitClassify /\ [][NextClassify]_vars

(***************************************************************************)
(* Redaction applied to header collections under every configuration       *)
(* Configure installs.                                                      *)
(***************************************************************************)
HeaderNames == {H_SetCookie, S_cookie, H_Authorization, H_XApiKey, H_xapikey, H_Accept}
HeaderValues == { <<>>, <<"v1">>, <<"v1", "v2">> }
MaxHeaders == 2

HeaderCollections ==
    UNION { [names -> HeaderValues] :
              names \in { n \in SUBSET HeaderNames : Cardinality(n) <= MaxHeaders } }

InitRedact ==
    /\ DefaultOptions = InitialOptions
    /\ sinkLevel = "INFO"
    /\ nConfigure = 0
    /\ InitFlow(<<>>, TRUE)
    /\ probe \in { [header |-> h, done |-> FALSE, out |-> <<>>] :
                     h \in HeaderCollections }
    /\ InitOther

Redact(order) ==
    /\ ~probe.done
    /\ probe' = [probe EXCEPT !.done = TRUE,
                              !.out = headerLogField(probe.header, order)]
    /\ UNCHANGED <<DefaultOptions, sinkLevel, nConfigure, flowVars, added, cfg, conc>>

NextRedact ==
    \/ \E opts \in OptionChoices : ~probe.done /\ Configure(opts)
    \/ \E order \in Orders(probe.header) : Redact(order)

SpecRedact == InitRedact /\ [][NextRedact]_vars

(***************************************************************************)
(* Configure running while a request is served.  Configure is not          *)
(* synchronised: it prepares its copy of the options (defaults, lower-     *)
(* casing), stores the copy into DefaultOptions with a plain struct        *)
(* assignment, and only then replaces the default slog handler.  The       *)
(* struct assignment is a copy of several words that a concurrent reader   *)
(* may see half done; the two halves are stored in either order.           *)
(***************************************************************************)
OptionFields == {"LogLevel", "LevelFieldName", "Concise", "Tags", "SkipHeaders",
                 "TimeFieldFormat", "TimeFieldName"}

\* the fields the first half of the struct copy may hold
StoreSplits == { {"LogLevel", "LevelFieldName", "Concise", "Tags"},
                 {"SkipHeaders", "TimeFieldFormat", "TimeFieldName"} }

\* old with the fields of F taken from new
Mixed(old, new, F) == [f \in OptionFields |-> IF f \in F THEN new[f] ELSE old[f]]

\* Configure: entry, defaults and lower-casing on the local copy
ConfigureBegin(opts) ==
    /\ cfg.at = "idle"
    /\ nConfigure < MaxConfigure
    /\ cfg' = [at |-> "begun", opts |-> opts]
    /\ nConfigure' = nConfigure + 1
    /\ UNCHANGED <<DefaultOptions, sinkLevel, flowVars, probe, added, conc>>

\* DefaultOptions = opts: the first words of the copy
ConfigureStorePart(F) ==
    /\ cfg.at = "begun"
    /\ DefaultOptions' = Mixed(DefaultOptions, ConfiguredOptions(cfg.opts), F)
    /\ cfg' = [cfg EXCEPT !.at = "half"]
    /\ UNCHANGED <<sinkLevel, nConfigure, flowVars, probe, added, conc>>

\* DefaultOptions = opts: the remaining words
ConfigureStoreRest ==
    /\ cfg.at = "half"
    /\ DefaultOptions' = ConfiguredOptions(cfg.opts)
    /\ cfg' = [cfg EXCEPT !.at = "stored"]
    /\ UNCHANGED <<sinkLevel, nConfigure, flowVars, probe, added, conc>>

\* slog.SetDefault with the handler of the configured level
ConfigureSetDefault ==
    /\ cfg.at = "stored"
    /\ sinkLevel' = ConfiguredLevel(cfg.opts)
    /\ cfg' = NoConfigure
    /\ UNCHANGED <<DefaultOptions, nConfigure, flowVars, probe, added, conc>>

NextRace ==
    \/ \E opts \in OptionChoices : ConfigureBegin(opts)
    \/ \E F \in StoreSplits : ConfigureStorePart(F)
    \/ ConfigureStoreRest
    \/ ConfigureSetDefault
    \/ \E req \in Requests : \E order \in Orders(req.Header) : HandlerEnter(req, order)
    \/ \E code \in StatusChoices : NextWriteHeader(code)
    \/ \E h \in HeaderChoices : NextSetHeader(h[1], h[2])
    \/ NextReturn
    \/ Recoverer
    \/ \E order \in Orders(w.header) : HandlerDeferred(order)

SpecRace == Init /\ [][NextRace]_vars

(***************************************************************************)
(* Configure called repeatedly, with no request in flight.  probe keeps    *)
(* the argument of the last call and of the call before it.                *)
(***************************************************************************)
MaxReconfigure == 2

S_DEBUG == <<"D","E","B","U","G">>
S_Warn == <<"W","a","r","n">>
S_trace == <<"t","r","a","c","e">>

\* the arguments handed to Configure
ConfigureArgs ==
    { [LogLevel |-> l, LevelFieldName |-> n[1], Concise |-> c, Tags |-> t,
       SkipHeaders |-> h, TimeFieldFormat |-> n[2], TimeFieldName |-> n[3]] :
        l \in {<<>>, S_DEBUG, S_Warn, S_error, S_trace},
        n \in {<<"", "", "">>, <<"severity", "2006-01-02", "ts">>},
        c \in BOOLEAN,
        t \in {<<>>, ("env" :> "prod")},
        h \in {<<>>, <<H_XApiKey>>, <<H_XAPIKEY, H_Accept>>} }

InitConfigure ==
    /\ DefaultOptions = InitialOptions
    /\ sinkLevel = "INFO"
    /\ nConfigure = 0
    /\ InitFlow(<<>>, TRUE)
    /\ probe = [called |-> FALSE, arg |-> InitialOptions, prev |-> InitialOptions]
    /\ InitOther

ConfigureAgain(opts) ==
    /\ pc = "idle"
    /\ nConfigure < MaxReconfigure
    /\ DefaultOptions' = ConfiguredOptions(opts)
    /\ sinkLevel' = ConfiguredLevel(opts)
    /\ nConfigure' = nConfigure + 1
    /\ probe' = [called |-> TRUE, arg |-> opts, prev |-> probe.arg]
    /\ UNCHANGED <<flowVars, added, cfg, conc>>

NextConfigure == \E opts \in ConfigureArgs : ConfigureAgain(opts)

SpecConfigure == InitConfigure /\ [][NextConfigure]_vars

(***************************************************************************)
(* Two requests served concurrently by one Handler.  Both flows share the  *)
(* base logger of the requestLogger; each NewLogEntry allocates an entry   *)
(* object and stores a reference to it in that request's context.  conc    *)
(* holds the entry objects (heap), each flow's reference to its entry      *)
(* (ctx), position (pc) and response status, and the records emitted, each *)
(* tagged with the flow that emitted it.                                   *)
(***************************************************************************)
Flows == {1, 2}

\* the request each flow serves
FlowRequest(i) ==
    CHOOSE q \in Requests : q.Path = (IF i = 1 THEN P_root ELSE P_pingx)

\* what the downstream handler of each flow adds and panics with
FlowUser(i) == "u-" \o ToString(i)
FlowFields(i) == ("tenant" :> ("t-" \o ToString(i)))
FlowPanic(i) == [type |-> "string", s |-> "boom-" \o ToString(i)]

\* variant: one entry object kept by the requestLogger and reused
NewEntryShared(heap) == 1

\* entry := &RequestLoggerEntry{}: a fresh object
NewEntry(heap) == Len(heap) + 1

\* the heap with object ref set to e
Store(heap, ref, e) ==
    [k \in 1..(IF ref > Len(heap) THEN ref ELSE Len(heap)) |->
        IF k = ref THEN e ELSE heap[k]]

Tagged(i, recs) == [k \in DOMAIN recs |-> [flow |-> i, rec |-> recs[k]]]

InitTwo ==
    /\ DefaultOptions = InitialOptions
    /\ sinkLevel = "INFO"
    /\ nConfigure = 0
    /\ InitFlow(<<>>, TRUE)
    /\ probe = <<>>
    /\ added = {}
    /\ cfg = NoConfigure
    /\ conc = [heap |-> <<>>, ctx |-> [i \in Flows |-> 0],
               pc |-> [i \in Flows |-> "idle"],
               status |-> [i \in Flows |-> 0], out |-> <<>>]

TwoFrame == UNCHANGED <<DefaultOptions, sinkLevel, nConfigure, flowVars, probe, added, cfg>>

\* Handler up to next.ServeHTTP: NewLogEntry, the entry stored in the context
TwoEnter(i, order) ==
    /\ conc.pc[i] = "idle"
    /\ LET ref == NewEntry(conc.heap)
           e == [Logger |-> NewLogEntryLogger(FlowRequest(i)), msg |-> ""]
       IN  conc' = [conc EXCEPT
                      !.heap = Store(@, ref, e),
                      !.ctx[i] = ref,
                      !.pc[i] = "next",
                      !.out = @ \o Tagged(i, NewLogEntryRecords(FlowRequest(i), order))]
    /\ TwoFrame

\* LogEntrySetField(ctx, "user", ...)
TwoSetField(i) ==
    /\ conc.pc[i] = "next"
    /\ ~HasAttr(conc.heap[conc.ctx[i]].Logger, "user")
    /\ conc' = [conc EXCEPT !.heap[conc.ctx[i]].Logger = With(@, "user", FlowUser(i))]
    /\ TwoFrame

\* LogEntrySetFields(ctx, fields)
TwoSetFields(i) ==
    /\ conc.pc[i] = "next"
    /\ ~HasAttr(conc.heap[conc.ctx[i]].Logger, BadKey)
    /\ conc' = [conc EXCEPT !.heap[conc.ctx[i]].Logger = WithValue(@, FlowFields(i))]
    /\ TwoFrame

\* the downstream handler writes its status and returns
TwoReturn(i, code) ==
    /\ conc.pc[i] = "next"
    /\ conc' = [conc EXCEPT !.status[i] = code, !.pc[i] = "finalizer"]
    /\ TwoFrame

\* the downstream handler panics; Recoverer calls Panic on the entry of the
\* request's context and writes status 500
TwoPanic(i) ==
    /\ conc.pc[i] = "next"
    /\ conc' = [conc EXCEPT
                  !.heap[conc.ctx[i]] = Panic(@, FlowPanic(i), StackText),
                  !.status[i] = 500,
                  !.pc[i] = "finalizer"]
    /\ TwoFrame

\* the deferred function of Handler: Write on the entry of the request
TwoDeferred(i, order) ==
    /\ conc.pc[i] = "finalizer"
    /\ conc' = [conc EXCEPT
                  !.pc[i] = "done",
                  !.out = @ \o Tagged(i, Write(conc.heap[conc.ctx[i]], conc.status[i],
                                               0, <<>>, 1, <<>>, order))]
    /\ TwoFrame

NextTwo ==
    \E i \in Flows :
        \/ \E order \in Orders(FlowRequest(i).Header) : TwoEnter(i, order)
        \/ TwoSetField(i)
        \/ TwoSetFields(i)
        \/ \E code \in StatusChoices : TwoReturn(i, code)
        \/ TwoPanic(i)
        \/ TwoDeferred(i, <<>>)

SpecTwo == InitTwo /\ [][NextTwo]_vars

(***************************************************************************)
(* Properties.                                                             *)
(***************************************************************************)
Count(call) == Cardinality({ i \in DOMAIN calls : calls[i] = call })
EndRecords == { i \in DOMAIN records : records[i].kind = "end" }
StartRecords == { i \in DOMAIN records : records[i].kind = "start" }
NotSkipped == r # NoRequest /\ r.Path \notin skipPaths
Running == pc \in {"next", "recoverer", "finalizer"}

\* C1: for a request whose path is not in the skip list, Handler's deferred
\* finalizer invokes Write exactly once on every exit path (return, panic
\* recovered by the recovery boundary, panic unwinding through Handler): not
\* before the downstream handler has ended, never twice, and once when the
\* request is done.
C1_WriteExactlyOnce ==
    /\ Count("Write") <= 1
    /\ Running => Count("Write") = 0
    /\ (pc = "done" /\ NotSkipped) => Count("Write") = 1

\* a panic that unwound through Handler, with Write invoked once
C1_Witness ==
    /\ pc = "done" /\ NotSkipped
    /\ panicking.on
    /\ Count("Write") = 1

\* C2: a request never has two or more end ("Response: ...") records, whatever
\* the downstream handler does.
C2_AtMostOneEndRecord == Cardinality(EndRecords) <= 1

\* a handler that made several operations and panicked, with one end record
C2_Witness ==
    /\ pc = "done" /\ panicked.on
    /\ steps >= 2
    /\ Cardinality(EndRecords) = 1

\* C3 (as claimed, for the case the claim names): when the downstream handler
\* of the RequestLogger chain wrote a status below 400 and then panicked with v,
\* an end record at error severity carrying panic=v and stacktrace is emitted.
C3_PanicLoggedAtError ==
    (/\ pc = "done" /\ useRecoverer /\ NotSkipped
     /\ panicked.on /\ Count("Panic") = 1
     /\ ww.code > 0 /\ ww.code < 400)
    => \E i \in EndRecords :
          /\ records[i].level = "ERROR"
          /\ HasAttr(records[i].attrs, "panic")
          /\ AttrOf(records[i].attrs, "panic") = Sprintf(panicked.v)
          /\ HasAttr(records[i].attrs, "stacktrace")

\* the message Write builds without a suffix
BaseMsg == "Response: " \o ToString(ww.code) \o " " \o statusLabel(ww.code)

\* C4 (as claimed): when the downstream handler of the RequestLogger chain
\* panicked with v, Panic ran before Write, the entry's logger carries panic=v
\* and stacktrace, and the finalization message is "Response: <status> <label>
\* - <v>"; without a panic the message has no suffix.
C4_Original ==
    (pc = "done" /\ useRecoverer /\ NotSkipped) =>
        IF panicked.on
        THEN /\ calls = <<"Panic", "Write">>
             /\ HasAttr(entry.Logger, "panic")
             /\ HasAttr(entry.Logger, "stacktrace")
             /\ \A i \in EndRecords :
                    records[i].msg = BaseMsg \o " - " \o Sprintf(panicked.v)
        ELSE \A i \in EndRecords : records[i].msg = BaseMsg

\* C4 (amended): when the downstream handler of the RequestLogger chain
\* panicked with a value v other than http.ErrAbortHandler, Panic ran on the
\* entry strictly before Write, the entry's logger and the end record carry
\* panic=v and stacktrace=<trace>, and the finalization message is "Response:
\* <status> <label> - <v>" when the text of v is not empty and "Response:
\* <status> <label>" when it is empty; when Panic did not run (no panic, or
\* ErrAbortHandler raised again) the message has no suffix and the logger
\* carries no panic field.
C4_PanicBeforeWrite ==
    (pc = "done" /\ useRecoverer /\ NotSkipped) =>
        IF panicked.on /\ panicked.v # ErrAbortHandler
        THEN /\ calls = <<"Panic", "Write">>
             /\ AttrOf(entry.Logger, "panic") = Sprintf(panicked.v)
             /\ AttrOf(entry.Logger, "stacktrace") = StackText
             /\ \A i \in EndRecords :
                    /\ records[i].msg =
                          IF Sprintf(panicked.v) # ""
                          THEN BaseMsg \o " - " \o Sprintf(panicked.v)
                          ELSE BaseMsg
                    /\ AttrOf(records[i].attrs, "panic") = Sprintf(panicked.v)
                    /\ AttrOf(records[i].attrs, "stacktrace") = StackText
        ELSE /\ calls = <<"Write">>
             /\ ~HasAttr(entry.Logger, "panic")
             /\ \A i \in EndRecords : records[i].msg = BaseMsg

\* a recovered panic "oh no" whose end record carries the suffix
C4_Witness ==
    /\ pc = "done" /\ useRecoverer /\ NotSkipped
    /\ panicked.on /\ Sprintf(panicked.v) = "oh no"
    /\ \E i \in EndRecords : records[i].msg = "Response: 500 Server Error - oh no"

\* C5 (as claimed): for every request exactly one of the normal Write
\* finalization and the panic finalization Panic is taken on its entry.
C5_Original ==
    pc = "done" =>
        (Count("Write") + Count("Panic") = 1)

\* C5 (amended): for every request whose path is not in the skip list the
\* normal Write finalization is taken exactly once and last; the panic hook
\* Panic is taken at most once, only before that Write and on the same entry
\* (a recovered panic takes both); for a request on a skipped path neither is
\* taken.
C5_FinalizationPaths ==
    pc = "done" =>
        IF NotSkipped
        THEN calls = <<"Write">> \/ calls = <<"Panic", "Write">>
        ELSE calls = <<>>

\* a recovered panic: both Panic and Write were taken
C5_Witness ==
    /\ pc = "done" /\ NotSkipped
    /\ calls = <<"Panic", "Write">>

\* C6: Write emits no end record when the final status is of info severity
\* (0 < status < 400), exactly one at warn when status <= 0 or 400 <= status <
\* 500, exactly one at error when status >= 500; so a request returning 200 in
\* concise mode has no start and no end record.
C6_InfoSuppressed ==
    (pc = "done" /\ NotSkipped) =>
        /\ (ww.code > 0 /\ ww.code < 400) => EndRecords = {}
        /\ (ww.code <= 0 \/ (ww.code >= 400 /\ ww.code < 500)) =>
               /\ Cardinality(EndRecords) = 1
               /\ \A i \in EndRecords : records[i].level = "WARN"
        /\ ww.code >= 500 =>
               /\ Cardinality(EndRecords) = 1
               /\ \A i \in EndRecords : records[i].level = "ERROR"
        /\ (DefaultOptions.Concise /\ ww.code = 200) =>
               \A i \in DOMAIN records : records[i].kind = "handler"

\* a 200 response with a body in concise mode: no record at all
C6_Witness ==
    /\ pc = "done" /\ NotSkipped
    /\ DefaultOptions.Concise
    /\ ww.code = 200 /\ ww.bytes > 0
    /\ records = <<>>

\* C7: a request whose path equals a member of the skip list reaches the
\* downstream handler with the original writer and request: no entry in the
\* context, no wrapper, no start or end record, whatever the handler does; a
\* request whose path is not a member is never bypassed.
C7_SkipExact ==
    pc # "idle" =>
        IF \E p \in skipPaths : p = r.Path
        THEN /\ ~hasEntry /\ ~wrapped
             /\ ww = NewWrapResponseWriter /\ buf = <<>>
             /\ calls = <<>>
             /\ \A i \in DOMAIN records :
                    /\ records[i].kind = "handler"
                    /\ records[i].attrs = DefaultLogger
        ELSE hasEntry /\ wrapped

\* a skipped request whose handler wrote, logged and panicked
C7_Witness ==
    /\ pc = "done"
    /\ r.Path = P_ping /\ P_ping \in skipPaths
    /\ Len(w.body) > 0 /\ Len(records) > 0
    /\ panicked.on

\* C8: for every status s the pair (statusLevel(s), statusLabel(s)) is:
\* s <= 0 -> (warn, Unknown); 0 < s < 100 -> (info, Unknown); 100 <= s < 300 ->
\* (info, OK); 300 <= s < 400 -> (info, Redirect); 400 <= s < 500 -> (warn,
\* Client Error); s >= 500 -> (error, Server Error).
C8_ClassificationTable ==
    probe.done =>
        LET s == probe.s
            pair == <<probe.level, probe.label>>
        IN  /\ s <= 0 => pair = <<"WARN", "Unknown">>
            /\ (0 < s /\ s < 100) => pair = <<"INFO", "Unknown">>
            /\ (100 <= s /\ s < 300) => pair = <<"INFO", "OK">>
            /\ (300 <= s /\ s < 400) => pair = <<"INFO", "Redirect">>
            /\ (400 <= s /\ s < 500) => pair = <<"WARN", "Client Error">>
            /\ s >= 500 => pair = <<"ERROR", "Server Error">>

\* status 0 classified
C8_Witness ==
    /\ probe.done /\ probe.s = 0
    /\ probe.level = "WARN" /\ probe.label = "Unknown"

\* the name is always redacted, or equals an entry of the configured list
\* when case is ignored
Sensitive(name) ==
    \/ ToLower(name) \in {S_authorization, S_cookie, S_set_cookie}
    \/ \E i \in DOMAIN DefaultOptions.SkipHeaders :
           ToLower(DefaultOptions.SkipHeaders[i]) = ToLower(name)

\* C9: under every configuration installed by Configure, headerLogField maps
\* each header that has a value to its lower-cased name; the stored value is
\* "***" whenever the lower-cased name is authorization, cookie or set-cookie
\* or equals, ignoring case, an entry of the configured SkipHeaders; a name
\* none of whose headers has a value is absent.
C9_Redaction ==
    probe.done =>
        /\ \A k \in DOMAIN probe.header :
               Len(probe.header[k]) >= 1 =>
                   /\ ToLower(k) \in DOMAIN probe.out
                   /\ Sensitive(k) => probe.out[ToLower(k)] = Mask
        /\ \A key \in DOMAIN probe.out :
               \E k \in DOMAIN probe.header :
                   ToLower(k) = key /\ Len(probe.header[k]) >= 1

\* X-Api-Key masked through a configured list that named it in another case,
\* beside a header that is not masked
C9_Witness ==
    /\ probe.done
    /\ DOMAIN probe.header = {H_XApiKey, H_SetCookie}
    /\ probe.header[H_XApiKey] = <<"v1", "v2">>
    /\ probe.header[H_SetCookie] = <<"v1">>
    /\ nConfigure = 1
    /\ H_xapikey \in DOMAIN probe.out
    /\ probe.out[H_xapikey] = Mask
    /\ probe.out[S_set_cookie] = Mask

\* C10: with Concise = true no start record is emitted and an end record's
\* response field set holds status, bytes and elapsed only, also for a status
\* >= 400 with a body and response headers.
C10_Concise ==
    DefaultOptions.Concise =>
        /\ StartRecords = {}
        /\ \A i \in EndRecords :
               DOMAIN AttrOf(records[i].attrs, "httpResponse")
                   = {"status", "bytes", "elapsed"}

\* a concise 4xx/5xx response with body bytes and a response header, logged
C10_Witness ==
    /\ pc = "done" /\ DefaultOptions.Concise
    /\ ww.code >= 400 /\ ww.bytes > 0
    /\ DOMAIN w.header # {}
    /\ EndRecords # {}


\* C11 (as claimed): every association handed to LogEntrySetField or
\* LogEntrySetFields on an entry is carried, key and value, by the entry's
\* logger from then on.
C11_FieldsMerged ==
    \A a \in added :
        \E i \in DOMAIN entry.Logger :
            entry.Logger[i][1] = a[1] /\ entry.Logger[i][2] = a[2]


\* the step handed one record of the downstream handler to that handle
LoggedThrough(logger) ==
    /\ Len(records') = Len(records) + 1
    /\ SubSeq(records', 1, Len(records)) = records
    /\ records'[Len(records')].kind = "handler"
    /\ records'[Len(records')].attrs = logger

\* C12: LogEntry returns the entry's logger when the context carries an entry
\* and the process-wide default logger otherwise; while the context carries no
\* entry (a skipped path), no step of the downstream handler, LogEntrySetField
\* and LogEntrySetFields included, changes an entry or emits a record other
\* than the handler's own through the default logger.
C12_SafeFallback ==
    [][ pc = "next" =>
          /\ records' # records =>
                 LoggedThrough(IF hasEntry THEN entry.Logger ELSE DefaultLogger)
          /\ ~hasEntry => (entry' = entry /\ added' = added /\ calls' = calls) ]_vars

\* a skipped request whose handler logged once and made two other operations,
\* neither on the response: LogEntrySetField or LogEntrySetFields
C12_Witness ==
    /\ pc = "done" /\ ~hasEntry
    /\ r.Path \in skipPaths
    /\ steps >= 3
    /\ w = NewWriter
    /\ Len(records) = 1
    /\ records[1].attrs = DefaultLogger


\* the configurations a Configure call installs, with the initial one
Installed ==
    { [options |-> InitialOptions, level |-> "INFO"] } \cup
    { [options |-> ConfiguredOptions(o), level |-> ConfiguredLevel(o)] :
        o \in OptionChoices }

\* C13 (as claimed): with Configure running concurrently, the configuration a
\* request flow reads is never partially updated: when the deferred Write is
\* about to read DefaultOptions, the option set is one that was installed
\* whole and the default sink is the one installed with it.
C13_AtomicSwap ==
    pc = "finalizer" =>
        [options |-> DefaultOptions, level |-> sinkLevel] \in Installed


\* C14: after any sequence of Configure calls the option set is the last
\* argument with the four empty-able fields defaulted and the redaction
\* list lower-cased, every other field exactly as in that argument
\* (nothing of an earlier configuration survives), and the sink's minimum
\* level is the level the argument names, info when it names none.
C14_ReplacedWholesale ==
    probe.called =>
        LET a == probe.arg
            d == DefaultOptions
            name == ToLower(a.LogLevel)
        IN  /\ DOMAIN d = OptionFields
            /\ d.LogLevel = (IF a.LogLevel = <<>> THEN S_info ELSE a.LogLevel)
            /\ d.LevelFieldName = (IF a.LevelFieldName = "" THEN "level" ELSE a.LevelFieldName)
            /\ d.TimeFieldFormat = (IF a.TimeFieldFormat = "" THEN RFC3339Nano ELSE a.TimeFieldFormat)
            /\ d.TimeFieldName = (IF a.TimeFieldName = "" THEN "timestamp" ELSE a.TimeFieldName)
            /\ d.Concise = a.Concise
            /\ d.Tags = a.Tags
            /\ Len(d.SkipHeaders) = Len(a.SkipHeaders)
            /\ \A i \in DOMAIN a.SkipHeaders : d.SkipHeaders[i] = ToLower(a.SkipHeaders[i])
            /\ sinkLevel = (IF name = S_debug THEN "DEBUG"
                            ELSE IF name = S_warn THEN "WARN"
                            ELSE IF name = S_error THEN "ERROR"
                            ELSE "INFO")

\* a configuration with tags, a redaction list, concise mode and level
\* DEBUG is followed by one with none of them and an unrecognized level
C14_Witness ==
    /\ nConfigure = 2
    /\ probe.prev.Tags # <<>> /\ probe.prev.SkipHeaders # <<>>
    /\ probe.prev.Concise /\ probe.prev.LogLevel = S_DEBUG
    /\ probe.arg.Tags = <<>> /\ probe.arg.SkipHeaders = <<>>
    /\ ~probe.arg.Concise /\ probe.arg.LogLevel = S_trace
    /\ DefaultOptions.Tags = <<>> /\ DefaultOptions.SkipHeaders = <<>>
    /\ ~DefaultOptions.Concise
    /\ sinkLevel = "INFO"


\* the attributes of logger that flow i accounts for: its own request, its
\* own fields, its own panic annotation
OwnedBy(i, logger) ==
    \A k \in DOMAIN logger :
        /\ logger[k][1] = "httpRequest" =>
               logger[k][2].requestPath = Text(FlowRequest(i).Path)
        /\ logger[k][1] = "user" => logger[k][2] = FlowUser(i)
        /\ logger[k][1] = BadKey => logger[k][2] = FlowFields(i)
        /\ logger[k][1] = "panic" => logger[k][2] = Sprintf(FlowPanic(i))

\* C15: with two requests interleaved in any way, every start record, end
\* record and entry logger of a flow carries only that flow's request
\* fields, added fields and panic annotation, its end message names only
\* its own panic, and the base logger carries none of them.
C15_FlowsIsolated ==
    /\ conc # <<>> =>
        /\ \A i \in Flows :
               conc.ctx[i] # 0 => OwnedBy(i, conc.heap[conc.ctx[i]].Logger)
        /\ \A k \in DOMAIN conc.out :
               LET o == conc.out[k]
                   other == CHOOSE j \in Flows : j # o.flow
               IN  /\ OwnedBy(o.flow, o.rec.attrs)
                   /\ o.rec.msg # "Response: 500 Server Error - " \o Sprintf(FlowPanic(other))
        /\ \A i, j \in Flows : i # j => conc.ctx[i] = 0 \/ conc.ctx[i] # conc.ctx[j]
    /\ \A k \in DOMAIN BaseLogger : BaseLogger[k][1] \notin {"user", BadKey, "panic", "httpRequest"}

\* both flows ran interleaved (both start records precede both end records):
\* flow 2 set fields and panicked, flow 1 set a field and returned an error
\* status, and both end records are out
C15_Witness ==
    /\ conc # <<>>
    /\ \A i \in Flows : conc.pc[i] = "done"
    /\ Len(conc.out) = 4
    /\ conc.out[1].flow = 1 /\ conc.out[2].flow = 2
    /\ conc.out[3].flow = 2 /\ conc.out[4].flow = 1
    /\ HasAttr(conc.out[3].rec.attrs, "panic")
    /\ HasAttr(conc.out[4].rec.attrs, "user")
    /\ ~HasAttr(conc.out[4].rec.attrs, "panic")
    /\ ~HasAttr(conc.out[3].rec.attrs, "user")
    /\ HasAttr(conc.out[3].rec.attrs, BadKey)


\* C16: in every state of a wrapped request the side buffer holds at most
\* LimitBufferCap bytes and is a prefix of the bytes written to the
\* response; until it is drained it holds exactly the first bytes up to the
\* capacity, while every byte written has reached the underlying stream and
\* is counted by the wrapper, whether mirrored or not.
C16_SideBufferBounded ==
    wrapped =>
        /\ Len(buf) <= LimitBufferCap
        /\ Len(buf) <= Len(w.body)
        /\ SubSeq(w.body, 1, Len(buf)) = buf
        /\ pc \in {"next", "recoverer", "finalizer"} =>
               Len(buf) = Min(Len(w.body), LimitBufferCap)
        /\ ww.bytes = Len(w.body)

\* the buffer filled during the second write (a small chunk, then a large
\* one) and a third, large write went to the stream only
C16_Witness ==
    /\ wrapped /\ pc = "next"
    /\ Len(buf) = LimitBufferCap
    /\ Len(w.body) = 2 * LimitBufferCap + 3 * SmallChunk
    /\ ww.bytes = Len(w.body)
    /\ buf[1] = "h" /\ buf[LimitBufferCap] = "e"


\* C17: once Handler has taken up a request whose path is not skipped, the
\* records hold no start record if the configuration is concise, and
\* otherwise exactly one, "Request: METHOD PATH" at info, in first place:
\* ahead of every record the downstream handler emits and of the end record.
C17_StartRecord ==
    (pc # "idle" /\ NotSkipped) =>
        IF DefaultOptions.Concise
        THEN StartRecords = {}
        ELSE /\ StartRecords = {1}
             /\ records[1].level = "INFO"
             /\ records[1].msg = "Request: " \o r.Method \o " " \o Text(r.Path)
             /\ \A i \in DOMAIN records :
                    records[i].kind \in {"handler", "end"} => i > 1

\* not concise: the start record, then a record of the downstream handler,
\* then the end record
C17_Witness ==
    /\ pc = "done" /\ NotSkipped /\ ~DefaultOptions.Concise
    /\ Len(records) = 3
    /\ records[1].kind = "start" /\ records[1].msg = "Request: GET /"
    /\ records[2].kind = "handler"
    /\ records[3].kind = "end"


\* C18 (as claimed): headerLogField is deterministic: the mapping one
\* evaluation returned for a header collection under the current
\* configuration is the mapping every iteration order of that collection
\* gives, collections with two names that differ only in letter case included.
C18_Deterministic ==
    probe.done =>
        \A order \in Orders(probe.header) :
            headerLogField(probe.header, order) = probe.out


\* the first bytes of the response body, as many as the side buffer takes
Mirrored == SubSeq(w.body, 1, Min(Len(w.body), LimitBufferCap))

====
